---- MODULE Spec2Model ----
(***************************************************************************)
(* The tile pool (engine/tile.rs), the older chart pool with the same      *)
(* allocation algorithm (engine/mod.rs) and the atlas (engine/atlas.rs) of *)
(* stark, as a state machine (Spec), and its tools: the Airbrush of        *)
(* engine/airbrush.rs with util/piecewise_linear.rs (SpecBrush) and the    *)
(* rasterizer of engine/raster.rs (SpecRaster).  SpecCurves applies the    *)
(* operations of util/piecewise_linear.rs to functions of a few points,    *)
(* and SpecRace runs two calls of PoolInternal::allocate_index on two      *)
(* threads, one lock at a time.                                            *)
(*                                                                         *)
(* A run of Spec follows one of the two ways the pool is used:             *)
(*   "pool"  - the caller owns a Pool and calls allocate_tile, set_data,   *)
(*             fill_texture, Tile::clone and drops tiles (tests::draw_tiles*)
(*             in tile.rs);                                                *)
(*   "atlas" - the caller owns an Atlas, whose pool is private, and calls  *)
(*             get_chart_mut, get_chart and charts, and drops the handles  *)
(*             and the atlas.  A clone of the Atlas that is only kept      *)
(*             holds what charts(), collected, holds: a clone of every Arc.*)
(*             Nothing in the repository writes a chart's metadata through *)
(*             a handle, and neither does the caller here.                 *)
(*                                                                         *)
(* GPU memory is the pair (data, texture): one metadata slot and one       *)
(* texture layer per (block, layer).  wgpu applies queue writes and        *)
(* submitted command buffers in submission order, and nothing in these     *)
(* modules reads memory back, so every write is applied where it is        *)
(* submitted.  Buffers and textures are zero-initialised by wgpu.          *)
(***************************************************************************)
EXTENDS Integers, Sequences, FiniteSets, TLC

\* ---------------------------------------------------------------- bounds
\* The pool never creates more than MaxBlocks blocks in a run.
MaxBlocks == 2
\* The device's max_texture_array_layers is drawn from 1..MaxLimit.
MaxLimit == 2
\* ChartKeys are (x, -x) for x in 0..MaxKey.
MaxKey == 1
\* At most MaxHandles Arc<Chart> handles per chart are held outside an atlas.
MaxHandles == 1
\* The first HistLen allocations of the pool are recorded.
HistLen == 3
\* The vertices of the rasterized triangles have coordinates k / GRID, for k from
\* -1 to MaxX and to MaxY.
GRID == 2
MaxX == 4
MaxY == 3
\* The points given to PiecewiseLinear::new have x in 0..MaxBreakX and y in
\* 0..MaxBreakY; a is given at most MaxPointsA of them and b at most MaxPointsB.
MaxBreakX == 2
MaxBreakY == 1
MaxPointsA == 3
MaxPointsB == 2
\* The functions are evaluated at every multiple of 1 / SamplesPerUnit.
SamplesPerUnit == 4

\* ------------------------------------------------------ program constants
U32_BITS == 32
CHART_SIZE == 256
VERTEX_CAPACITY == 12
\* 0.05, the factor of min_spacing in Airbrush::drag.
MIN_SPACING == <<1, 20>>

VARIABLES
    scenario,        \* "pool" or "atlas": who owns the pool
    limit,           \* device().limits().max_texture_array_layers
    blocks,          \* PoolInternal::blocks, as the sequence of the blocks' layer counts
    free_list,       \* FreeList::indices
    data,            \* Block::data_buffer of every block: Index -> TileData
    texture,         \* Block::texture of every block: Index -> pixel
    tiles,           \* the live Tile values, as a bag of their Tile::index: Index -> count
    charts,          \* Atlas::charts: ChartKey -> index of the chart's tile, or NoIndex
    atlas_alive,     \* whether the Atlas exists
    handles,         \* Arc<Chart> clones held by the caller, by the index of the chart's tile
    panicked,        \* "no", or what made the thread panic
    last,            \* the last call and what it returned
    alloc_seq,       \* what the first allocations returned, kept until an index is released
    released,        \* whether any index was ever released
    last_point,      \* Airbrush::last_point, as a sequence of at most one InputPoint
    stale,           \* whether last_point was dragged before the last stop()
    returned,        \* the last call of the Airbrush and what it returned
    tri,             \* the arguments of conservative_triangle, once it was called
    cells,           \* what conservative_triangle returned
    segment_end,     \* where the last drawable of the stroke ended, at most one InputPoint
    pl_in,           \* the points PiecewiseLinear::new is given, for a and for b
    pl_out,          \* the operation of piecewise_linear.rs that was called, and its result
    threads          \* the calls of allocate_index in progress, one per thread

\* The state of the pool and the atlas, and the state of the tools.
pool_vars == <<scenario, limit, blocks, free_list, data, texture, tiles, charts,
               atlas_alive, handles, last, alloc_seq, released>>
tool_vars == <<last_point, stale, returned, tri, cells, segment_end, pl_in, pl_out, threads>>

vars == <<scenario, limit, blocks, free_list, data, texture, tiles, charts,
          atlas_alive, handles, panicked, last, alloc_seq, released,
          last_point, stale, returned, tri, cells, segment_end, pl_in, pl_out, threads>>

\* ------------------------------------------------------------- helpers
Min(a, b) == IF a < b THEN a ELSE b

RECURSIVE Pow2(_)
Pow2(n) == IF n = 0 THEN 1 ELSE 2 * Pow2(n - 1)

Range(s) == {s[i] : i \in 1..Len(s)}

Index(b, l) == [block_index |-> b, layer_index |-> l]
NoIndex == Index(-1, -1)

\* min(1 << shift, lim), by doubling: the model checker's integers are 32-bit
\* signed and cannot hold 1 << 31, that a u32 holds; the doubling stops at lim.
RECURSIVE ShiftMin(_, _)
ShiftMin(shift, lim) ==
    IF shift = 0 THEN Min(1, lim)
    ELSE LET half == ShiftMin(shift - 1, lim)
         IN  IF half >= lim THEN lim ELSE Min(2 * half, lim)

\* let block_size = 1 << (block_index as u32).min(u32::BITS - 1);
\* let block_size = block_size.min(max_texture_array_layers);
\* (block_index as u32 is block_index: a pool never holds 2^32 blocks.)
\* Faulty variants: without the device's cap; always one layer.
BlockSizeUncapped(block_index, lim) == Pow2(Min(block_index, U32_BITS - 1))
BlockSizeOne(block_index, lim) == Min(1, lim)
BlockSize(block_index, lim) == ShiftMin(Min(block_index, U32_BITS - 1), lim)

\* assert!(block_size > 0); the faulty variant refuses a block of one layer.
BlockSizeAssertStrict(block_size) == block_size > 1
BlockSizeAssert(block_size) == block_size > 0

Keys == {<<x, 0 - x>> : x \in 0..MaxKey}
NoKey == <<>>

\* TileData; the data buffer is created without contents, which wgpu zeroes.
TileData(scale, translation) ==
    [chart_to_canvas_scale |-> scale, chart_to_canvas_translation |-> translation]
ZeroData == TileData(<<0, 0>>, <<0, 0>>)
\* The metadata a caller of the pool writes (tests::draw_tiles).
UserData == {TileData(<<1, 1>>, <<0 - 1, 0>>)}
\* Pixels: a zeroed layer, which is also what the atlas clears to, and a painted one.
ZeroPixel == <<0, 0, 0, 0>>
UserPixels == {<<192, 64, 0, 128>>}

\* ChartKey::chart_to_canvas_scale_and_translation; the faulty variant swaps scale
\* and translation.
ChartToCanvasSwapped(key) ==
    TileData(<<CHART_SIZE * key[1], CHART_SIZE * key[2]>>, <<CHART_SIZE, CHART_SIZE>>)
ChartToCanvas(key) ==
    TileData(<<CHART_SIZE, CHART_SIZE>>, <<CHART_SIZE * key[1], CHART_SIZE * key[2]>>)

\* ------------------------------------------------------------ free list
\* FreeList::try_allocate is Vec::pop: the last element, which leaves the list.
\* Faulty variants: the first element; the last element, left in the list.
TryAllocateFront(fl) == [index |-> fl[1], rest |-> Tail(fl)]
TryAllocatePeek(fl) == [index |-> fl[Len(fl)], rest |-> fl]
TryAllocate(fl) == [index |-> fl[Len(fl)], rest |-> SubSeq(fl, 1, Len(fl) - 1)]

\* FreeList::release is Vec::push.  Faulty variants: pushed twice; not pushed.
ReleaseTwice(fl, index) == Append(Append(fl, index), index)
ReleaseNothing(fl, index) == fl
Release(fl, index) == Append(fl, index)

RECURSIVE ReleaseAll(_, _)
ReleaseAll(fl, indices) ==
    IF indices = <<>> THEN fl
    ELSE ReleaseAll(Release(fl, Head(indices)), Tail(indices))

\* for layer_index in 1..block_size { free_list.release(..) }
\* Faulty variant: layer 0 is pushed too.
NewLayersAll(block_index, block_size) ==
    [l \in 1..block_size |-> Index(block_index, l - 1)]
NewLayers(block_index, block_size) ==
    [l \in 1..(block_size - 1) |-> Index(block_index, l)]

\* PoolInternal::allocate_index (ChartPool::allocate_index is the same code):
\* what it returns and what it leaves behind.  ok = FALSE: the assertion failed.
\* Faulty variant: a block is created although the free list is not empty.
AllocateIndexGrowsFirst(bl, fl, lim) ==
    IF fl # <<>> /\ Len(bl) > MaxBlocks
    THEN [ok |-> TRUE, index |-> fl[Len(fl)], blocks |-> bl,
          free_list |-> SubSeq(fl, 1, Len(fl) - 1), created |-> FALSE]
    ELSE [ok |-> TRUE, index |-> Index(Len(bl), 0),
          blocks |-> Append(bl, Min(Pow2(Len(bl)), lim)),
          free_list |-> fl \o [l \in 1..(Min(Pow2(Len(bl)), lim) - 1) |->
                                  Index(Len(bl), l)],
          created |-> TRUE]
AllocateIndex(bl, fl, lim) ==
    IF fl # <<>>
    THEN [ok |-> TRUE, index |-> TryAllocate(fl).index, blocks |-> bl,
          free_list |-> TryAllocate(fl).rest, created |-> FALSE]
    ELSE LET block_index == Len(bl)
             block_size == BlockSize(block_index, lim)
         IN  IF ~BlockSizeAssert(block_size)
             THEN [ok |-> FALSE, index |-> NoIndex, blocks |-> bl,
                   free_list |-> fl, created |-> FALSE]
             ELSE [ok |-> TRUE, index |-> Index(block_index, 0),
                   blocks |-> Append(bl, block_size),
                   free_list |-> ReleaseAll(fl, NewLayers(block_index, block_size)),
                   created |-> TRUE]

\* The memory of a new block: create_texture and BindingBuffer::with_capacity.
NewBlockMemory(mem, bl, bl2, zero) ==
    IF Len(bl2) = Len(bl) THEN mem
    ELSE [i \in {Index(Len(bl), l) : l \in 0..(bl2[Len(bl2)] - 1)} |-> zero] @@ mem

\* ------------------------------------------------------------- queries
AllLayers == UNION {{Index(b - 1, l) : l \in 0..(blocks[b] - 1)} : b \in 1..Len(blocks)}
LiveIndices == {i \in DOMAIN tiles : tiles[i] > 0}
\* The pool can hand out an index without passing MaxBlocks.
CanAllocate == free_list # <<>> \/ Len(blocks) < MaxBlocks

\* Arc::strong_count of the chart whose tile is at index i.
\* Faulty variant: one Arc too many is counted.
RefCountOffByOne(i) == 1 + handles[i] + Cardinality({k \in Keys : charts[k] = i})
RefCount(i) == handles[i] + Cardinality({k \in Keys : charts[k] = i})

\* A call: the index of the tile it returned, the index it copied from, the index
\* it released last and, when it allocated, the index the call before it released.
Called(op) ==
    [op |-> op, index |-> NoIndex, src |-> NoIndex, freed |-> NoIndex, after |-> NoIndex]

\* The record of the first HistLen allocations of a pool nothing was released to.
Record(seq, rel, entry) ==
    IF ~rel /\ Len(seq) < HistLen THEN Append(seq, entry) ELSE seq

\* Every ordering of a set.
Orderings(S) == {s \in [1..Cardinality(S) -> S] : Range(s) = S}

\* ------------------------------------------------------ exact arithmetic
\* The f32 values of util/piecewise_linear.rs and engine/airbrush.rs are modelled
\* as exact fractions <<numerator, denominator>> in lowest terms with a positive
\* denominator; +-infinity has denominator 0.  Rounding is not modelled.
Abs(a) == IF a < 0 THEN 0 - a ELSE a

RECURSIVE Gcd(_, _)
Gcd(a, b) == IF b = 0 THEN a ELSE Gcd(b, a % b)

Rat(n, d) ==
    LET g == Gcd(Abs(n), Abs(d))
        s == IF d < 0 THEN 0 - 1 ELSE 1
    IN  <<(s * n) \div g, (s * d) \div g>>

Whole(n) == <<n, 1>>
INFINITY == <<1, 0>>
NEG_INFINITY == <<0 - 1, 0>>

RAdd(a, b) == Rat(a[1] * b[2] + b[1] * a[2], a[2] * b[2])
RSub(a, b) == Rat(a[1] * b[2] - b[1] * a[2], a[2] * b[2])
RMul(a, b) == Rat(a[1] * b[1], a[2] * b[2])
RDiv(a, b) == Rat(a[1] * b[2], a[2] * b[1])
RNeg(a) == <<0 - a[1], a[2]>>
RLess(a, b) == a[1] * b[2] < b[1] * a[2]
RMin(a, b) == IF RLess(b, a) THEN b ELSE a
RMax(a, b) == IF RLess(a, b) THEN b ELSE a
RClamp(a, lo, hi) == RMax(lo, RMin(a, hi))

\* ------------------------------------------------ util/piecewise_linear.rs
\* A breakpoint; Ord for Point compares x only.
Point(x, y) == [x |-> x, y |-> y]

\* Vec::sort of the points: a stable sort by x.
RECURSIVE InsertPoint(_, _)
InsertPoint(sorted, p) ==
    IF sorted = <<>> THEN <<p>>
    ELSE IF RLess(p.x, sorted[Len(sorted)].x)
    THEN Append(InsertPoint(SubSeq(sorted, 1, Len(sorted) - 1), p), sorted[Len(sorted)])
    ELSE Append(sorted, p)

RECURSIVE SortPoints(_)
SortPoints(points) ==
    IF points = <<>> THEN <<>>
    ELSE InsertPoint(SortPoints(SubSeq(points, 1, Len(points) - 1)), points[Len(points)])

\* PiecewiseLinear::new: the sorted points, every one of them kept; no function
\* (the empty sequence) for no points.
\* Faulty variant: no function for points that are not passed in ascending order.
PiecewiseLinearNewOfSorted(points) ==
    IF points = SortPoints(points) THEN points ELSE <<>>
PiecewiseLinearNew(points) == SortPoints(points)

\* A value of an Interpolable type Y is a tuple of fractions: one for f32, two for
\* Vec2.  Its Default is zero, its operators act on every coordinate.
VZero(y) == [i \in DOMAIN y |-> Whole(0)]
VAdd(y0, y1) == [i \in DOMAIN y0 |-> RAdd(y0[i], y1[i])]
VSub(y0, y1) == [i \in DOMAIN y0 |-> RSub(y0[i], y1[i])]
VScale(y, r) == [i \in DOMAIN y |-> RMul(y[i], r)]

\* Linear::constant, Linear::fit and Linear::evaluate.
LinearConstant(y) == [slope |-> VZero(y), intercept |-> y]

LinearFit(x0, y0, x1, y1) ==
    LET diff == RSub(x1, x0)
        slope == IF RLess(Whole(0), diff) THEN VScale(VSub(y1, y0), RDiv(Whole(1), diff))
                 ELSE VZero(y0)
    IN  [slope |-> slope,
         intercept |-> VScale(VSub(VAdd(y0, y1), VScale(slope, RAdd(x0, x1))), <<1, 2>>)]

LinearEvaluate(linear, x) == VAdd(VScale(linear.slope, x), linear.intercept)

\* The k-th item of Iter over a function of n points, k in 1..n+1: LinearPiece::new
\* of the points before and after it.  The iterator ends after item n+1.
PieceCount(points) == Len(points) + 1

Piece(points, k) ==
    IF k = 1
    THEN [start |-> NEG_INFINITY, end |-> points[1].x,
          extension |-> LinearConstant(points[1].y)]
    ELSE IF k <= Len(points)
    THEN [start |-> points[k - 1].x, end |-> points[k].x,
          extension |-> LinearFit(points[k - 1].x, points[k - 1].y,
                                  points[k].x, points[k].y)]
    ELSE [start |-> points[k - 1].x, end |-> INFINITY,
          extension |-> LinearConstant(points[k - 1].y)]

\* The comparison of two pieces' domain ends that picks the branch of the walk.
EndsBeforeOrAt(p, q) == ~RLess(q.end, p.end)
EndsNeverBefore(p, q) == FALSE
EndsBefore(p, q) == RLess(p.end, q.end)

\* zip_flat_piece_map, from the pieces iy of ys and iz of zs on: the domain and the
\* two extensions its closure is called with, call by call.
RECURSIVE ZipFlatPieceWalk(_, _, _, _)
ZipFlatPieceWalk(ys, zs, iy, iz) ==
    IF iy > PieceCount(ys) \/ iz > PieceCount(zs) THEN <<>>
    ELSE LET y == Piece(ys, iy)
             z == Piece(zs, iz)
         IN  IF EndsBefore(z, y)
             THEN IF iz + 1 > PieceCount(zs) THEN <<>>
                  ELSE LET z2 == Piece(zs, iz + 1)
                       IN  <<[start |-> z2.start, end |-> RMin(z2.end, y.end),
                              y |-> y.extension, z |-> z2.extension]>>
                           \o ZipFlatPieceWalk(ys, zs, iy, iz + 1)
             ELSE IF EndsBefore(y, z)
             THEN IF iy + 1 > PieceCount(ys) THEN <<>>
                  ELSE LET y2 == Piece(ys, iy + 1)
                       IN  <<[start |-> y2.start, end |-> RMin(y2.end, z.end),
                              y |-> y2.extension, z |-> z.extension]>>
                           \o ZipFlatPieceWalk(ys, zs, iy + 1, iz)
             ELSE IF iy + 1 > PieceCount(ys) \/ iz + 1 > PieceCount(zs) THEN <<>>
                  ELSE LET y2 == Piece(ys, iy + 1)
                           z2 == Piece(zs, iz + 1)
                       IN  <<[start |-> RMax(y2.start, z2.start),
                              end |-> RMin(y2.end, z2.end),
                              y |-> y2.extension, z |-> z2.extension]>>
                           \o ZipFlatPieceWalk(ys, zs, iy + 1, iz + 1)

ZipFlatPieceMap(ys, zs) == ZipFlatPieceWalk(ys, zs, 1, 1)

\* glam::vec2 of two f32.
Vec2(y, z) == y \o z

\* bilinear_map with vec2 as f, as Airbrush::drag calls it: one point per call of the
\* closure, at the start of the call's domain.
BilinearMapVec2(ys, zs) ==
    LET calls == ZipFlatPieceMap(ys, zs)
    IN  [i \in 1..Len(calls) |->
           Point(calls[i].start, Vec2(LinearEvaluate(calls[i].y, calls[i].start),
                                      LinearEvaluate(calls[i].z, calls[i].start)))]

\* map_merged_inflection_points: what its closure is called with, call by call.
\* Faulty variant: the closure is also called for the interval before the first
\* breakpoint.
MapMergedInflectionPointsFromStart(ys, zs) ==
    LET calls == ZipFlatPieceMap(ys, zs)
    IN  <<[x |-> NEG_INFINITY, y |-> ys[1].y, z |-> zs[1].y]>>
        \o [i \in 1..Len(calls) |->
              [x |-> calls[i].start,
               y |-> LinearEvaluate(calls[i].y, calls[i].start),
               z |-> LinearEvaluate(calls[i].z, calls[i].start)]]
MapMergedInflectionPoints(ys, zs) ==
    LET calls == ZipFlatPieceMap(ys, zs)
    IN  [i \in 1..Len(calls) |->
           [x |-> calls[i].start,
            y |-> LinearEvaluate(calls[i].y, calls[i].start),
            z |-> LinearEvaluate(calls[i].z, calls[i].start)]]

\* partition_point(|p| !(x < p.x)) of the sorted points: how many are at or before x.
PartitionPoint(points, x) ==
    Cardinality({i \in 1..Len(points) : ~RLess(x, points[i].x)})

\* piece_at: LinearPiece::new of the last point at or before x and the one after it.
PieceAt(points, x) == Piece(points, PartitionPoint(points, x) + 1)

\* evaluate: the extension of the piece at x, at x.
\* Faulty variant: the y of the last point at or before x, without interpolation.
EvaluateStep(points, x) ==
    IF PartitionPoint(points, x) = 0 THEN points[1].y
    ELSE points[PartitionPoint(points, x)].y
Evaluate(points, x) == LinearEvaluate(PieceAt(points, x).extension, x)

\* linear_map with the f of tests::linear_map, y * 2 + 1: the same x, f of every y.
LinearMap(points) ==
    [i \in 1..Len(points) |->
       Point(points[i].x, VAdd(VScale(points[i].y, Whole(2)), <<Whole(1)>>))]

\* bilinear_map with f(y, z) = wy * y + wz * z (y + z in tests::bilinear_map_1,
\* y + 2 z in tests::bilinear_map_2): one point per call of the closure, at the
\* start of the call's domain.
\* Faulty variant: the closure reads z where the domain ends.
BilinearMapAtEnd(ys, zs, wy, wz) ==
    LET walk == ZipFlatPieceMap(ys, zs)
    IN  [i \in 1..Len(walk) |->
           Point(walk[i].start,
                 VAdd(VScale(LinearEvaluate(walk[i].y, walk[i].start), Whole(wy)),
                      VScale(LinearEvaluate(walk[i].z,
                                 IF walk[i].end = INFINITY THEN walk[i].start
                                 ELSE walk[i].end), Whole(wz))))]
BilinearMap(ys, zs, wy, wz) ==
    LET walk == ZipFlatPieceMap(ys, zs)
    IN  [i \in 1..Len(walk) |->
           Point(walk[i].start,
                 VAdd(VScale(LinearEvaluate(walk[i].y, walk[i].start), Whole(wy)),
                      VScale(LinearEvaluate(walk[i].z, walk[i].start), Whole(wz))))]

\* The intersection_point of pointwise_max and pointwise_min: the x where the two
\* lines of a call meet, if it is strictly inside the call's domain.  With equal
\* slopes the quotient is infinite or NaN, and inside no domain.
\* Faulty variant: no intersection is ever found.
IntersectionNever(call) == <<>>
Intersection(call) ==
    LET slope_diff == RSub(call.y.slope[1], call.z.slope[1])
        intercept_difference == RSub(call.z.intercept[1], call.y.intercept[1])
    IN  IF slope_diff = Whole(0) THEN <<>>
        ELSE LET x == RDiv(intercept_difference, slope_diff)
             IN  IF RLess(call.start, x) /\ RLess(x, call.end) THEN <<x>> ELSE <<>>

\* The points one call of the closure of pointwise_max (is_max) or pointwise_min
\* chains: the one at the start of the domain, then the intersection point.
PointwiseCall(call, is_max) ==
    LET At(x) == LET y == LinearEvaluate(call.y, x)[1]
                     z == LinearEvaluate(call.z, x)[1]
                 IN  Point(x, <<IF is_max THEN RMax(y, z) ELSE RMin(y, z)>>)
        crossing == Intersection(call)
    IN  <<At(call.start)>> \o [i \in 1..Len(crossing) |-> At(crossing[i])]

\* zip_flat_piece_linear_map of that closure: the calls' points, one after another.
RECURSIVE PointwiseWalk(_, _)
PointwiseWalk(walk, is_max) ==
    IF walk = <<>> THEN <<>>
    ELSE PointwiseCall(Head(walk), is_max) \o PointwiseWalk(Tail(walk), is_max)

PointwiseMax(ys, zs) == PointwiseWalk(ZipFlatPieceMap(ys, zs), TRUE)
PointwiseMin(ys, zs) == PointwiseWalk(ZipFlatPieceMap(ys, zs), FALSE)

\* --------------------------------------------------- engine/airbrush.rs
\* An InputPoint.  color, opacity and rate reach only the values of the vertices,
\* never their number or the retained point, and are left out.  Positions have
\* whole coordinates.
InputPoint(position, pressure, size) ==
    [position |-> position, pressure |-> pressure, size |-> size]

\* size * pressure of a point.
PointSize(p) == RMul(p.size, p.pressure)

\* (p1 - p0).length_squared() and (p1 - p0).length(); the positions of a run are
\* chosen so that every length is whole.
LengthSquared(p0, p1) ==
    (p1[1] - p0[1]) * (p1[1] - p0[1]) + (p1[2] - p0[2]) * (p1[2] - p0[2])

Length(p0, p1) ==
    LET n == LengthSquared(p0, p1)
    IN  Whole(CHOOSE r \in 0..n : r * r = n)

\* The spacing filter of drag: delta_squared < min_spacing.powi(2).
TooCloseUnsquared(last_pt, point) ==
    RLess(Whole(LengthSquared(last_pt.position, point.position)),
          RMul(MIN_SPACING, RAdd(PointSize(point), PointSize(last_pt))))
TooCloseNewPointOnly(last_pt, point) ==
    RLess(Whole(LengthSquared(last_pt.position, point.position)),
          RMul(RMul(MIN_SPACING, PointSize(point)), RMul(MIN_SPACING, PointSize(point))))
TooClose(last_pt, point) ==
    LET point_size == PointSize(point)
        last_point_size == PointSize(last_pt)
        min_spacing == RMul(MIN_SPACING, RAdd(point_size, last_point_size))
        delta_squared == Whole(LengthSquared(last_pt.position, point.position))
    IN  RLess(delta_squared, RMul(min_spacing, min_spacing))

\* The blend function of drag.  shift_fraction is used only where length > s0 + s1.
Blend(s0, s1, length) ==
    LET shift_fraction == RClamp(RDiv(RSub(s0, s1), length), Whole(0 - 1), Whole(1))
        zero == <<Whole(0)>>
        one == <<Whole(1)>>
    IN  IF RLess(RAdd(s0, s1), length)
        THEN PiecewiseLinearNew(<<
                 Point(RNeg(s0), zero),
                 Point(RMul(s0, shift_fraction), zero),
                 Point(RAdd(length, RMul(s1, shift_fraction)), one),
                 Point(RAdd(length, s1), one)>>)
        ELSE LET b == IF RLess(RAdd(length, s0), s1)
                      THEN <<RMax(RSub(Whole(1), RDiv(length, RSub(s1, s0))), Whole(0)),
                             Whole(1)>>
                      ELSE IF RLess(RAdd(length, s1), s0)
                      THEN <<Whole(0), RMin(RDiv(length, RSub(s0, s1)), Whole(1))>>
                      ELSE <<Whole(0), Whole(1)>>
             IN  PiecewiseLinearNew(<<
                     Point(RSub(Whole(0), RAdd(s0, RMul(b[1], RSub(s1, s0)))), <<b[1]>>),
                     Point(RAdd(length, RAdd(s0, RMul(b[2], RSub(s1, s0)))), <<b[2]>>)>>)

\* first_inflection_point and last_inflection_point of a function: its first and
\* its last breakpoint, as (x, y).
FirstInflectionPoint(points) == <<points[1].x, points[1].y[1]>>
LastInflectionPoint(points) == <<points[Len(points)].x, points[Len(points)].y[1]>>

\* The two texture-coordinate ramps of drag.
UStart(blend, s0, s1) ==
    LET d == LastInflectionPoint(blend)[1]
        b == LastInflectionPoint(blend)[2]
        s == RAdd(s0, RMul(b, RSub(s1, s0)))
    IN  PiecewiseLinearNew(<<Point(RSub(d, RMul(Whole(2), s)), <<Whole(0)>>),
                             Point(d, <<Whole(1)>>)>>)

UEnd(blend, s0, s1) ==
    LET d == FirstInflectionPoint(blend)[1]
        b == FirstInflectionPoint(blend)[2]
        s == RAdd(s0, RMul(b, RSub(s1, s0)))
    IN  PiecewiseLinearNew(<<Point(d, <<Whole(0)>>),
                             Point(RAdd(d, RMul(Whole(2), s)), <<Whole(1)>>)>>)

\* The events of drag for the segment from last_pt to point: (distance, blend,
\* u_bounds), one per call of the closure.
Events(last_pt, point) ==
    LET length == Length(last_pt.position, point.position)
        s0 == PointSize(last_pt)
        s1 == PointSize(point)
        blend == Blend(s0, s1, length)
        u_bounds == BilinearMapVec2(UStart(blend, s0, s1), UEnd(blend, s0, s1))
    IN  MapMergedInflectionPoints(blend, u_bounds)

\* vertices.len(): two vertices per event.
VertexCount(last_pt, point) == 2 * Len(Events(last_pt, point))

\* What drag does to last_point and what it returns: nothing (vertex_count 0, not
\* drawable) or a drawable of vertex_count vertices.
DragResultDropsFirst(retained, point) ==
    [last_point |-> <<>>, replaced |-> FALSE, drawable |-> FALSE, vertex_count |-> 0]
\* Faulty variant: a point that is too close is retained all the same.
DragResultRetainsRejected(retained, point) ==
    IF retained = <<>> \/ TooClose(retained[1], point)
    THEN [last_point |-> <<point>>, replaced |-> TRUE, drawable |-> FALSE,
          vertex_count |-> 0]
    ELSE [last_point |-> <<point>>, replaced |-> TRUE,
          drawable |-> VertexCount(retained[1], point) <= VERTEX_CAPACITY,
          vertex_count |-> VertexCount(retained[1], point)]
DragResult(retained, point) ==
    IF retained # <<>> /\ TooClose(retained[1], point)
    THEN [last_point |-> retained, replaced |-> FALSE, drawable |-> FALSE,
          vertex_count |-> 0]
    ELSE IF retained = <<>>
    THEN [last_point |-> <<point>>, replaced |-> TRUE, drawable |-> FALSE,
          vertex_count |-> 0]
    ELSE LET n == VertexCount(retained[1], point)
         IN  [last_point |-> <<point>>, replaced |-> TRUE,
              drawable |-> n <= VERTEX_CAPACITY, vertex_count |-> n]

\* What start and stop leave in last_point.
AfterStart(retained) == retained
AfterStopKeeps(retained) == retained
AfterStop(retained) == <<>>

\* The points a run drags: every combination of these positions, pressures and sizes.
Positions == {<<0, 0>>, <<3, 0>>, <<3, 4>>}
Pressures == {Whole(0), <<1, 2>>, Whole(1)}
Sizes == {Whole(1), Whole(4), Whole(70)}
InputPoints == {InputPoint(p, q, s) : p \in Positions, q \in Pressures, s \in Sizes}

\* A call of the Airbrush: its argument, last_point before it, what it returned and
\* whether the segment of the drawable starts at a point dragged before the last stop.
Returned(op, point, before) ==
    [op |-> op, point |-> point, before |-> before, drawable |-> FALSE,
     vertex_count |-> 0, stale |-> FALSE]

\* The tools of a run that uses none.
ToolsUnused ==
    /\ last_point = <<>>
    /\ stale = FALSE
    /\ returned = Returned("none", <<>>, <<>>)
    /\ tri = <<>>
    /\ cells = <<>>
    /\ segment_end = <<>>
    /\ pl_in = <<>>
    /\ pl_out = <<>>
    /\ threads = <<>>

\* The pool of a run that uses none.
PoolUnused ==
    /\ limit = 1
    /\ blocks = <<>>
    /\ free_list = <<>>
    /\ data = <<>>
    /\ texture = <<>>
    /\ tiles = <<>>
    /\ handles = <<>>
    /\ charts = [k \in Keys |-> NoIndex]
    /\ atlas_alive = FALSE
    /\ panicked = "no"
    /\ last = Called("none")
    /\ alloc_seq = <<>>
    /\ released = FALSE

\* ----------------------------------------------------- engine/raster.rs
\* A Vec2 is a pair <<x, y>> of fractions; a cell is a pair <<x, y>> of integers.
\* floor_as_i32.
TruncateAsI32(x) == IF x[1] < 0 THEN 0 - ((0 - x[1]) \div x[2]) ELSE x[1] \div x[2]
FloorAsI32(x) == x[1] \div x[2]

NegateY(p) == <<p[1], RNeg(p[2])>>
NegateX(p) == <<RNeg(p[1]), p[2]>>

\* max_line_along_x: for every column from that of p0 to that of p1, the row of the
\* highest cell the segment p0-p1 enters in the column.  slope is used only when
\* the two points lie in different columns.
MaxLineAlongX(p0, p1) ==
    LET dx == RSub(p1[1], p0[1])
        dy == RSub(p1[2], p0[2])
        slope == RDiv(dy, dx)
        intercept == RSub(p0[2], RMul(slope, p0[1]))
        xi0 == FloorAsI32(p0[1])
        xi1 == FloorAsI32(p1[1])
        positive == ~RLess(dy, Whole(0))
        steps == [k \in 1..(xi1 - xi0) |->
                    FloorAsI32(RAdd(intercept, RMul(slope, Whole(xi0 + k))))]
    IN  IF positive THEN Append(steps, FloorAsI32(p1[2]))
        ELSE <<FloorAsI32(p0[2])>> \o steps

\* min_line_along_x: max_line_along_x of the mirror image, mirrored back.
MinLineAlongX(p0, p1) ==
    LET line == MaxLineAlongX(NegateY(p0), NegateY(p1))
    IN  [k \in 1..Len(line) |-> 0 - (line[k] + 1)]

\* The cells (x, y_min), ..., (x, y_max) of the columns from index k on.
RECURSIVE WedgeCells(_, _, _, _)
WedgeCells(x0, lows, highs, k) ==
    IF k > Len(lows) \/ k > Len(highs) THEN <<>>
    ELSE [j \in 1..(highs[k] - lows[k] + 1) |-> <<x0 + k - 1, lows[k] + j - 1>>]
         \o WedgeCells(x0, lows, highs, k + 1)

\* conservative_wedge.
ConservativeWedge(a, b, c) ==
    WedgeCells(FloorAsI32(a[1]), MinLineAlongX(a, c), MaxLineAlongX(a, b), 1)

\* conservative_clockwise_triangle: the wedge at a, then the wedge at c computed on
\* the mirror image in x.
ConservativeClockwiseTriangle(a, b, c) ==
    LET mirrored == ConservativeWedge(NegateX(c), NegateX(b), NegateX(a))
    IN  ConservativeWedge(a, b, c)
        \o [k \in 1..Len(mirrored) |-> <<0 - (mirrored[k][1] + 1), mirrored[k][2]>>]

\* points.sort_by(x): a stable sort of the three vertices.
RECURSIVE InsertVertex(_, _)
InsertVertex(sorted, p) ==
    IF sorted = <<>> THEN <<p>>
    ELSE IF RLess(p[1], sorted[Len(sorted)][1])
    THEN Append(InsertVertex(SubSeq(sorted, 1, Len(sorted) - 1), p), sorted[Len(sorted)])
    ELSE Append(sorted, p)

SortByX(a, b, c) == InsertVertex(InsertVertex(<<a>>, b), c)

\* (c - a).perp_dot(b - a).
Det(a, b, c) ==
    RSub(RMul(RSub(c[1], a[1]), RSub(b[2], a[2])),
         RMul(RSub(c[2], a[2]), RSub(b[1], a[1])))

\* The order of cells: by x, then by y.
CellLess(p, q) == p[1] < q[1] \/ (p[1] = q[1] /\ p[2] < q[2])

\* result.sort().
RECURSIVE InsertCell(_, _)
InsertCell(sorted, p) ==
    IF sorted = <<>> THEN <<p>>
    ELSE IF CellLess(p, sorted[Len(sorted)])
    THEN Append(InsertCell(SubSeq(sorted, 1, Len(sorted) - 1), p), sorted[Len(sorted)])
    ELSE Append(sorted, p)

RECURSIVE SortCells(_)
SortCells(result) ==
    IF result = <<>> THEN <<>>
    ELSE InsertCell(SortCells(SubSeq(result, 1, Len(result) - 1)), result[Len(result)])

\* coalesce: of every run of equal neighbours, one is kept.
CoalesceNothing(result) == result
RECURSIVE Coalesce(_)
Coalesce(result) ==
    IF Len(result) < 2 THEN result
    ELSE LET rest == Coalesce(Tail(result))
         IN  IF result[1] = rest[1] THEN rest ELSE <<result[1]>> \o rest

\* conservative_triangle, before its sort: the cells of the two wedges.
TriangleCells(a, b, c) ==
    LET points == SortByX(a, b, c)
        det == Det(points[1], points[2], points[3])
    IN  IF ~RLess(det, Whole(0))
        THEN ConservativeClockwiseTriangle(points[1], points[2], points[3])
        ELSE LET flipped == ConservativeClockwiseTriangle(
                                NegateY(points[1]), NegateY(points[2]), NegateY(points[3]))
             IN  [k \in 1..Len(flipped) |-> <<flipped[k][1], 0 - (flipped[k][2] + 1)>>]

\* conservative_triangle.
ConservativeTriangle(a, b, c) == Coalesce(SortCells(TriangleCells(a, b, c)))

\* --------------------------------------------------------------- Init
Init ==
    /\ scenario \in {"pool", "atlas"}
    /\ limit \in 1..MaxLimit
    /\ blocks = <<>>
    /\ free_list = <<>>
    /\ data = <<>>
    /\ texture = <<>>
    /\ tiles = <<>>
    /\ handles = <<>>
    /\ charts = [k \in Keys |-> NoIndex]
    /\ atlas_alive = (scenario = "atlas")
    /\ panicked = "no"
    /\ last = Called("new")
    /\ alloc_seq = <<>>
    /\ released = FALSE
    /\ ToolsUnused

\* ------------------------------------------------------ shared effects
\* Pool::allocate_tile: allocate_index, then Tile::new, which writes no memory.
\* The state it leaves and the new tile's index (NoIndex when the assertion failed).
PoolAllocateTile ==
    LET r == AllocateIndex(blocks, free_list, limit)
        live == NewBlockMemory(tiles, blocks, r.blocks, 0)
    IN  [index |-> r.index, freed |-> NoIndex,
         panicked |-> IF r.ok THEN "no" ELSE "assert",
         blocks |-> r.blocks, free_list |-> r.free_list,
         data |-> NewBlockMemory(data, blocks, r.blocks, ZeroData),
         texture |-> NewBlockMemory(texture, blocks, r.blocks, ZeroPixel),
         handles |-> NewBlockMemory(handles, blocks, r.blocks, 0),
         tiles |-> IF r.ok THEN [live EXCEPT ![r.index] = @ + 1] ELSE live,
         alloc_seq |-> IF r.ok
                       THEN Record(alloc_seq, released,
                                   [index |-> r.index, created |-> r.created])
                       ELSE alloc_seq]

\* Drop for Tile, for the tiles at `indices` in this order: release_index(self.index).
TilesAfterDrop(live, indices) ==
    [i \in DOMAIN live |-> IF i \in Range(indices) THEN live[i] - 1 ELSE live[i]]

\* What wgpu does with the command buffer of Tile::clone.  copy_buffer_to_buffer
\* refuses a copy within one buffer ("Copy within the same buffer" is a documented
\* panic of CommandEncoder::copy_buffer_to_buffer; wgpu-core reports
\* TransferError::SameSourceDestinationBuffer, WebGPU invalidates the encoder), and
\* the metadata of all layers of a block lives in the block's one data_buffer.  The
\* device has no error handler installed: natively the default handler panics, in
\* the browser the invalid command buffer is dropped whole.
CopyOutcomes(src, dst) ==
    IF src.block_index # dst.block_index THEN {"copied"} ELSE {"rejected", "panic"}

\* impl Clone for Tile, of the tile at `src`: allocate_tile, then the two copies.
\* A panic unwinds through `destination`, whose drop releases its index.
CloneTile(src, outcome) ==
    LET a == PoolAllocateTile
    IN  IF a.panicked # "no" THEN a
        ELSE IF outcome = "copied"
        THEN [a EXCEPT !.data = [@ EXCEPT ![a.index] = a.data[src]],
                       !.texture = [@ EXCEPT ![a.index] = a.texture[src]]]
        ELSE IF outcome = "rejected"
        THEN a
        ELSE [a EXCEPT !.index = NoIndex, !.freed = a.index, !.panicked = "wgpu",
                       !.free_list = Release(@, a.index),
                       !.tiles = TilesAfterDrop(@, <<a.index>>)]

\* The index allocate_index is about to return.
NextIndex == AllocateIndex(blocks, free_list, limit).index

\* The pool's part of the state after an allocation or a clone.
PoolBecomes(r) ==
    /\ blocks' = r.blocks
    /\ free_list' = r.free_list
    /\ data' = r.data
    /\ texture' = r.texture
    /\ tiles' = r.tiles
    /\ handles' = r.handles
    /\ panicked' = r.panicked
    /\ alloc_seq' = IF r.freed # NoIndex THEN <<>> ELSE r.alloc_seq
    /\ released' = (released \/ r.freed # NoIndex)

\* ------------------------------------------------------- pool scenario
\* Pool::allocate_tile, by the owner of the pool.
AllocateTile ==
    /\ UNCHANGED tool_vars
    /\ scenario = "pool" /\ panicked = "no" /\ CanAllocate
    /\ PoolBecomes(PoolAllocateTile)
    /\ last' = [Called("allocate_tile") EXCEPT !.index = PoolAllocateTile.index,
                                               !.after = last.freed]
    /\ UNCHANGED <<scenario, limit, charts, atlas_alive>>

\* Tile::set_data, by the owner of a tile of the pool.
TileSetData(i, d) ==
    /\ UNCHANGED tool_vars
    /\ scenario = "pool" /\ panicked = "no" /\ i \in LiveIndices
    /\ data' = [data EXCEPT ![i] = d]
    /\ last' = [Called("set_data") EXCEPT !.index = i]
    /\ UNCHANGED <<scenario, limit, blocks, free_list, texture, tiles, charts,
                   atlas_alive, handles, panicked, alloc_seq, released>>

\* Tile::fill_texture, by the owner of a tile of the pool or through a chart handle.
TileFillTexture(i, p) ==
    /\ UNCHANGED tool_vars
    /\ panicked = "no" /\ i \in LiveIndices
    /\ scenario = "atlas" => handles[i] > 0
    /\ texture' = [texture EXCEPT ![i] = p]
    /\ last' = [Called("fill_texture") EXCEPT !.index = i]
    /\ UNCHANGED <<scenario, limit, blocks, free_list, data, tiles, charts,
                   atlas_alive, handles, panicked, alloc_seq, released>>

\* impl Clone for Tile, by the owner of a tile of the pool.
TileClone(i) ==
    /\ UNCHANGED tool_vars
    /\ scenario = "pool" /\ panicked = "no" /\ i \in LiveIndices /\ CanAllocate
    /\ \E outcome \in CopyOutcomes(i, NextIndex) :
         LET c == CloneTile(i, outcome)
         IN  /\ PoolBecomes(c)
             /\ last' = [Called("clone") EXCEPT !.index = c.index, !.src = i,
                                                !.freed = c.freed, !.after = last.freed]
    /\ UNCHANGED <<scenario, limit, charts, atlas_alive>>

\* impl Drop for Tile, by the owner of a tile of the pool.
TileDrop(i) ==
    /\ UNCHANGED tool_vars
    /\ scenario = "pool" /\ panicked = "no" /\ i \in LiveIndices
    /\ free_list' = ReleaseAll(free_list, <<i>>)
    /\ tiles' = TilesAfterDrop(tiles, <<i>>)
    /\ released' = TRUE
    /\ alloc_seq' = <<>>
    /\ last' = [Called("drop") EXCEPT !.freed = i]
    /\ UNCHANGED <<scenario, limit, blocks, data, texture, charts, atlas_alive, handles,
                   panicked>>

\* ------------------------------------------------------ atlas scenario
\* Atlas::get_chart_mut.  entry(key).or_insert_with allocates a tile, writes its
\* metadata, clears its texture and inserts the chart; Arc::make_mut then clones the
\* chart, and with it the tile, when the Arc is shared, and puts the clone in the
\* entry.
GetChartMut(key) ==
    /\ UNCHANGED tool_vars
    /\ scenario = "atlas" /\ panicked = "no" /\ atlas_alive
    /\ LET i == charts[key]
       IN  IF i = NoIndex
           THEN /\ CanAllocate
                /\ LET r == PoolAllocateTile
                       n == r.index
                   IN  IF r.panicked # "no"
                       THEN /\ PoolBecomes(r)
                            /\ last' = Called("get_chart_mut")
                            /\ UNCHANGED charts
                       ELSE /\ PoolBecomes(
                                 [r EXCEPT !.data = [@ EXCEPT ![n] = ChartToCanvas(key)],
                                           !.texture = [@ EXCEPT ![n] = ZeroPixel]])
                            /\ charts' = [charts EXCEPT ![key] = n]
                            /\ last' = [Called("get_chart_mut") EXCEPT
                                           !.index = n, !.after = last.freed]
           ELSE IF RefCount(i) = 1
           THEN /\ last' = [Called("get_chart_mut") EXCEPT !.index = i]
                /\ UNCHANGED <<blocks, free_list, data, texture, tiles, handles,
                               panicked, alloc_seq, released, charts>>
           ELSE /\ CanAllocate
                /\ \E outcome \in CopyOutcomes(i, NextIndex) :
                     LET c == CloneTile(i, outcome)
                     IN  /\ PoolBecomes(c)
                         /\ charts' = IF c.index = NoIndex THEN charts
                                      ELSE [charts EXCEPT ![key] = c.index]
                         /\ last' = [Called("get_chart_mut") EXCEPT
                                        !.index = c.index, !.src = i, !.freed = c.freed,
                                        !.after = last.freed]
    /\ UNCHANGED <<scenario, limit, atlas_alive>>

\* Atlas::get_chart: a clone of the key's Arc<Chart>, if there is one.
GetChart(key) ==
    /\ UNCHANGED tool_vars
    /\ scenario = "atlas" /\ panicked = "no" /\ atlas_alive
    /\ LET i == charts[key]
       IN  IF i = NoIndex
           THEN /\ last' = Called("get_chart")
                /\ UNCHANGED handles
           ELSE /\ handles[i] < MaxHandles
                /\ handles' = [handles EXCEPT ![i] = @ + 1]
                /\ last' = [Called("get_chart") EXCEPT !.index = i]
    /\ UNCHANGED <<scenario, limit, blocks, free_list, data, texture, tiles,
                   charts, atlas_alive, panicked, alloc_seq, released>>

\* Atlas::charts, collected: a clone of every Arc<Chart> of the atlas.
AtlasCharts ==
    /\ UNCHANGED tool_vars
    /\ scenario = "atlas" /\ panicked = "no" /\ atlas_alive
    /\ LET held == {charts[k] : k \in Keys} \ {NoIndex}
       IN  /\ \A i \in held : handles[i] < MaxHandles
           /\ handles' = [i \in DOMAIN handles |->
                            IF i \in held THEN handles[i] + 1 ELSE handles[i]]
    /\ last' = Called("charts")
    /\ UNCHANGED <<scenario, limit, blocks, free_list, data, texture, tiles,
                   charts, atlas_alive, panicked, alloc_seq, released>>

\* The caller drops an Arc<Chart>; the last Arc drops the chart and its tile.
DropHandle(i) ==
    /\ UNCHANGED tool_vars
    /\ scenario = "atlas" /\ panicked = "no" /\ i \in DOMAIN handles /\ handles[i] > 0
    /\ handles' = [handles EXCEPT ![i] = @ - 1]
    /\ LET gone == IF RefCount(i) = 1 THEN <<i>> ELSE <<>>
       IN  /\ free_list' = ReleaseAll(free_list, gone)
           /\ tiles' = TilesAfterDrop(tiles, gone)
           /\ released' = (released \/ gone # <<>>)
           /\ alloc_seq' = IF gone # <<>> THEN <<>> ELSE alloc_seq
           /\ last' = [Called("drop_handle") EXCEPT
                          !.freed = IF gone = <<>> THEN NoIndex ELSE i]
    /\ UNCHANGED <<scenario, limit, blocks, data, texture, charts, atlas_alive, panicked>>

\* The caller drops the Atlas: its map drops every Arc<Chart>, in the map's order,
\* which is any order.
AtlasDrop ==
    /\ UNCHANGED tool_vars
    /\ scenario = "atlas" /\ panicked = "no" /\ atlas_alive
    /\ atlas_alive' = FALSE
    /\ charts' = [k \in Keys |-> NoIndex]
    /\ \E gone \in Orderings({i \in {charts[k] : k \in Keys} \ {NoIndex} :
                                RefCount(i) = 1}) :
           /\ free_list' = ReleaseAll(free_list, gone)
           /\ tiles' = TilesAfterDrop(tiles, gone)
           /\ released' = (released \/ gone # <<>>)
           /\ alloc_seq' = IF gone # <<>> THEN <<>> ELSE alloc_seq
           /\ last' = [Called("atlas_drop") EXCEPT
                          !.freed = IF gone = <<>> THEN NoIndex ELSE gone[Len(gone)]]
    /\ UNCHANGED <<scenario, limit, blocks, data, texture, handles, panicked>>

Next ==
    \/ AllocateTile
    \/ \E i \in DOMAIN tiles, d \in UserData : TileSetData(i, d)
    \/ \E i \in DOMAIN tiles, p \in UserPixels : TileFillTexture(i, p)
    \/ \E i \in DOMAIN tiles : TileClone(i)
    \/ \E i \in DOMAIN tiles : TileDrop(i)
    \/ \E key \in Keys : GetChartMut(key)
    \/ \E key \in Keys : GetChart(key)
    \/ AtlasCharts
    \/ \E i \in DOMAIN tiles : DropHandle(i)
    \/ AtlasDrop

Spec == Init /\ [][Next]_vars

\* ----------------------------------------------------- brush scenario
\* The state of a run that owns an Airbrush, as new() leaves it.
InitBrush ==
    /\ scenario = "brush"
    /\ PoolUnused
    /\ last_point = <<>>
    /\ stale = FALSE
    /\ returned = Returned("new", <<>>, <<>>)
    /\ tri = <<>>
    /\ cells = <<>>
    /\ segment_end = <<>>
    /\ pl_in = <<>>
    /\ pl_out = <<>>
    /\ threads = <<>>

\* Airbrush::start.
Start ==
    /\ scenario = "brush" /\ panicked = "no"
    /\ last_point' = AfterStart(last_point)
    /\ returned' = Returned("start", <<>>, last_point)
    /\ UNCHANGED <<stale, panicked, tri, cells, segment_end, pl_in, pl_out, threads>>
    /\ UNCHANGED pool_vars

\* Airbrush::drag.  queue.write_buffer of more vertices than the vertex buffer holds
\* is a validation error of wgpu, which panics.
Drag(point) ==
    /\ scenario = "brush" /\ panicked = "no"
    /\ \E r \in {DragResult(last_point, point)} :
           /\ last_point' = r.last_point
           /\ stale' = (stale /\ ~r.replaced)
           /\ panicked' = IF r.vertex_count > VERTEX_CAPACITY THEN "wgpu" ELSE "no"
           /\ returned' = [Returned("drag", <<point>>, last_point) EXCEPT
                              !.drawable = r.drawable,
                              !.vertex_count = r.vertex_count,
                              !.stale = stale /\ r.drawable]
           /\ segment_end' = IF r.drawable THEN <<point>> ELSE segment_end
    /\ UNCHANGED <<tri, cells, pl_in, pl_out, threads>>
    /\ UNCHANGED pool_vars

\* Airbrush::stop.
Stop ==
    /\ scenario = "brush" /\ panicked = "no"
    /\ last_point' = AfterStop(last_point)
    /\ stale' = (AfterStop(last_point) # <<>>)
    /\ returned' = Returned("stop", <<>>, last_point)
    /\ segment_end' = <<>>
    /\ UNCHANGED <<panicked, tri, cells, pl_in, pl_out, threads>>
    /\ UNCHANGED pool_vars

NextBrush ==
    \/ Start
    \/ \E point \in InputPoints : Drag(point)
    \/ Stop

SpecBrush == InitBrush /\ [][NextBrush]_vars

\* ------------------------------------------------------------- claims
\* The step hands out index i: a tile at i exists after it that did not before.
HandedOut(i) ==
    /\ i \in DOMAIN tiles'
    /\ tiles'[i] > (IF i \in DOMAIN tiles THEN tiles[i] ELSE 0)

\* C1: no index held by a live tile is in the free list, and no two live tiles
\* hold the same index.
LiveIndicesAreNotFree ==
    /\ \A i \in LiveIndices : i \notin Range(free_list)
    /\ \A i \in DOMAIN tiles : tiles[i] <= 1

\* A clone that took a recycled index, with two tiles live and an index still free.
LiveIndicesAreNotFreeWitness ==
    /\ last.op = "clone" /\ last.index # NoIndex /\ released
    /\ Cardinality(LiveIndices) >= 2 /\ free_list # <<>>

\* What the first three allocations of a fresh pool with a device limit of at least
\* 2 returned, while nothing was released: (0, 0) and (1, 0), each from a new block,
\* then (1, 1) from the free list.
FirstThree ==
    (limit >= 2 /\ ~released) =>
        /\ Len(alloc_seq) >= 1 =>
              alloc_seq[1] = [index |-> Index(0, 0), created |-> TRUE]
        /\ Len(alloc_seq) >= 2 =>
              alloc_seq[2] = [index |-> Index(1, 0), created |-> TRUE]
        /\ Len(alloc_seq) >= 3 =>
              alloc_seq[3] = [index |-> Index(1, 1), created |-> FALSE]

AllocatePopsOrGrows ==
    [][/\ Len(blocks') > Len(blocks) => free_list = <<>>
       /\ \A i \in DOMAIN tiles' :
            (HandedOut(i) /\ free_list # <<>>) =>
                (i = free_list[Len(free_list)] /\ blocks' = blocks)
       /\ FirstThree']_vars

\* Three allocations were made on a pool nothing was released to.
AllocatePopsOrGrowsWitness ==
    /\ limit >= 2 /\ ~released /\ Len(alloc_seq) = 3
    /\ last.op = "allocate_tile" /\ Len(blocks) = 2

\* C4: an allocation that directly follows the release of a tile returns the index
\* that was just released.
FreeListIsLifo ==
    (last.index # NoIndex /\ last.after # NoIndex) => last.index = last.after

\* Three tiles were allocated, the first was dropped, and the allocation that
\* followed the drop returned its index.
FreeListIsLifoWitness ==
    /\ last.op = "allocate_tile" /\ last.after = Index(0, 0) /\ last.index = Index(0, 0)
    /\ LiveIndices = {Index(0, 0), Index(1, 0), Index(1, 1)}

\* C5: the free list holds no index twice, and holds every index of the pool that no
\* live tile holds, so every index whose tile was dropped and that was not handed
\* out again.
ReleasedIndicesAreFreeOnce ==
    /\ \A p, q \in 1..Len(free_list) : p # q => free_list[p] # free_list[q]
    /\ \A i \in AllLayers : i \notin LiveIndices => i \in Range(free_list)

\* The atlas was torn down and released the tiles of two charts.
ReleasedIndicesAreFreeOnceWitness ==
    /\ last.op = "atlas_drop" /\ last.freed # NoIndex
    /\ LiveIndices = {} /\ Len(free_list) = 3

\* Every block has min(2^k, limit) layers, k being its number.
BlockSizes == \A b \in 1..Len(blocks) : blocks[b] = Min(Pow2(b - 1), limit)

AllocationNeverFails ==
    [][/\ panicked' # "assert"
       /\ \A b \in 1..Len(blocks') : blocks'[b] >= 1 /\ blocks'[b] <= limit
       /\ AllocateTile => (last'.index # NoIndex /\ HandedOut(last'.index))]_vars

\* allocate_tile returned a tile with more tiles live than the device limit.
AllocationNeverFailsWitness ==
    /\ last.op = "allocate_tile" /\ last.index # NoIndex /\ panicked = "no"
    /\ Cardinality(LiveIndices) > limit

\* C7 as stated: the pool never has more live tiles than the device limit, the
\* allocation that would exceed it panicking instead of returning a handle.
LiveTilesWithinDeviceLimit == Cardinality(LiveIndices) <= limit

\* C8 as stated: Tile::clone returns a tile at a freshly allocated index, other than
\* the source's, whose metadata slot and texture layer hold what the source's held at
\* the clone; and a write to a tile or the drop of a tile changes no other tile's
\* index or contents.
CloneCopiesAndIsIndependent ==
    [][/\ \A i \in DOMAIN tiles :
            TileClone(i) =>
                LET n == last'.index
                IN  /\ n # NoIndex /\ n # i /\ n \notin LiveIndices
                    /\ HandedOut(n)
                    /\ data'[n] = data[i] /\ texture'[n] = texture[i]
                    /\ data'[i] = data[i] /\ texture'[i] = texture[i]
       /\ last'.op \in {"set_data", "fill_texture"} =>
            /\ tiles' = tiles
            /\ \A j \in DOMAIN tiles :
                  j # last'.index => (data'[j] = data[j] /\ texture'[j] = texture[j])
       /\ last'.op = "drop" =>
            /\ data' = data /\ texture' = texture
            /\ \A j \in DOMAIN tiles : j # last'.freed => tiles'[j] = tiles[j]]_vars

\* C9 as stated: the metadata slot of the tile of every key of the atlas holds the
\* chart-to-canvas mapping of the key.
ChartMetadataIsKeyMapping ==
    \A key \in Keys :
        charts[key] # NoIndex => data[charts[key]] = ChartToCanvas(key)

\* C10: Pool::allocate_tile leaves every metadata slot as it is, the slot of the index
\* it hands out included; the slot is written by the holder: by Tile::set_data, and
\* by get_chart_mut when it creates a chart, with the mapping of the key.
AllocateTileKeepsMetadata ==
    [][/\ AllocateTile => (\A i \in DOMAIN data : data'[i] = data[i])
       /\ \A i \in DOMAIN tiles, d \in UserData :
            TileSetData(i, d) => data'[i] = d
       /\ \A key \in Keys :
            (charts[key] = NoIndex /\ GetChartMut(key)) =>
                data'[charts'[key]] =
                    TileData(<<CHART_SIZE, CHART_SIZE>>,
                             <<CHART_SIZE * key[1], CHART_SIZE * key[2]>>)]_vars

\* allocate_tile handed out the index released by the call before it, and the slot
\* holds the metadata the previous holder wrote.
AllocateTileKeepsMetadataWitness ==
    /\ last.op = "allocate_tile" /\ last.after # NoIndex /\ last.index = last.after
    /\ data[last.index] \in UserData

\* C10 as stated: the metadata slot of an index that is handed out again does not
\* show what its previous holder wrote.
ReusedSlotIsReinitialized ==
    [][\A i \in DOMAIN tiles :
          (AllocateTile /\ HandedOut(i) /\ data[i] \in UserData) =>
              data'[i] # data[i]]_vars

\* ---------------------------------------------------- raster scenario
\* The triangles conservative_triangle is called with: every triple of points of
\* the grid, in every order, and the triangle of tests::test_conservative_triangle's
\* kind that the specification names.
GridPoints == {<<Rat(x, GRID), Rat(y, GRID)>> : x \in (0 - 1)..MaxX, y \in (0 - 1)..MaxY}
ExampleTriangle == <<<<Whole(0), Whole(0)>>, <<Whole(3), Whole(2)>>, <<Whole(5), Whole(0 - 1)>>>>
Triangles == (GridPoints \X GridPoints \X GridPoints) \cup {ExampleTriangle}

InitRaster ==
    /\ scenario = "raster"
    /\ PoolUnused
    /\ last_point = <<>>
    /\ stale = FALSE
    /\ returned = Returned("none", <<>>, <<>>)
    /\ tri \in Triangles
    /\ cells = <<"not called">>
    /\ segment_end = <<>>
    /\ pl_in = <<>>
    /\ pl_out = <<>>
    /\ threads = <<>>

\* conservative_triangle(a, b, c), collected.
CallConservativeTriangle ==
    /\ scenario = "raster" /\ cells = <<"not called">>
    /\ cells' = ConservativeTriangle(tri[1], tri[2], tri[3])
    /\ UNCHANGED <<tri, last_point, stale, returned, panicked, segment_end, pl_in, pl_out, threads>>
    /\ UNCHANGED pool_vars

NextRaster == CallConservativeTriangle

SpecRaster == InitRaster /\ [][NextRaster]_vars

\* ----------------------------------------------------- curves scenario
\* The lists of at most n points that PiecewiseLinear::new is given: in any order,
\* with or without points of equal x.
BreakPoints == {Point(Whole(x), <<Whole(y)>>) : x \in 0..MaxBreakX, y \in 0..MaxBreakY}
PointLists(n) == UNION {[1..k -> BreakPoints] : k \in 0..n}

\* Where the functions are evaluated: from one before the first x to one after the
\* last.
SampleXs ==
    {Rat(k, SamplesPerUnit) : k \in (0 - SamplesPerUnit)..(SamplesPerUnit * (MaxBreakX + 1))}

\* The weights of the combining functions of tests::bilinear_map_1 and _2.
Weights == {1, 2}

\* A call of piecewise_linear.rs: its argument x if it has one, what it returned, and
\* what it returned with a and b swapped if it takes two functions.
Applied(op, x, result, swapped) ==
    [op |-> op, x |-> x, result |-> result, swapped |-> swapped]

InitCurves ==
    /\ scenario = "curves"
    /\ PoolUnused
    /\ last_point = <<>>
    /\ stale = FALSE
    /\ returned = Returned("none", <<>>, <<>>)
    /\ tri = <<>>
    /\ cells = <<>>
    /\ segment_end = <<>>
    /\ threads = <<>>
    /\ \E a \in PointLists(MaxPointsA), b \in PointLists(MaxPointsB) :
           pl_in = [a |-> a, b |-> b]
    /\ pl_out = Applied("none", <<>>, <<>>, <<>>)

\* The functions new() makes of the points; unwrap() of none panics.
FunctionA == PiecewiseLinearNew(pl_in.a)
FunctionB == PiecewiseLinearNew(pl_in.b)
OneFunction == scenario = "curves" /\ pl_out.op = "none" /\ FunctionA # <<>> /\ pl_in.b = <<>>
TwoFunctions == scenario = "curves" /\ pl_out.op = "none" /\ FunctionA # <<>> /\ FunctionB # <<>>

CurvesUnchanged ==
    /\ UNCHANGED <<pl_in, last_point, stale, returned, tri, cells, segment_end,
                   threads, panicked>>
    /\ UNCHANGED pool_vars

\* PiecewiseLinear::new(a).
CallNew ==
    /\ scenario = "curves" /\ pl_out.op = "none" /\ pl_in.b = <<>>
    /\ pl_out' = Applied("new", <<>>, PiecewiseLinearNew(pl_in.a), <<>>)
    /\ CurvesUnchanged

\* new(a).unwrap().evaluate(x).
CallEvaluate(x) ==
    /\ OneFunction
    /\ pl_out' = Applied("evaluate", <<x>>, Evaluate(FunctionA, x), <<>>)
    /\ CurvesUnchanged

\* new(a).unwrap().linear_map(|y| y * 2.0 + 1.0).
CallLinearMap ==
    /\ OneFunction
    /\ pl_out' = Applied("linear_map", <<>>, LinearMap(FunctionA), <<>>)
    /\ CurvesUnchanged

\* a.bilinear_map(&b, |y, z| y + w * z) and b.bilinear_map(&a, |z, y| y + w * z).
CallBilinearMap(w) ==
    /\ TwoFunctions
    /\ pl_out' = Applied("bilinear_map", <<w>>, BilinearMap(FunctionA, FunctionB, 1, w),
                         BilinearMap(FunctionB, FunctionA, w, 1))
    /\ CurvesUnchanged

\* a.pointwise_max(&b) and b.pointwise_max(&a).
CallPointwiseMax ==
    /\ TwoFunctions
    /\ pl_out' = Applied("pointwise_max", <<>>, PointwiseMax(FunctionA, FunctionB),
                         PointwiseMax(FunctionB, FunctionA))
    /\ CurvesUnchanged

\* a.pointwise_min(&b) and b.pointwise_min(&a).
CallPointwiseMin ==
    /\ TwoFunctions
    /\ pl_out' = Applied("pointwise_min", <<>>, PointwiseMin(FunctionA, FunctionB),
                         PointwiseMin(FunctionB, FunctionA))
    /\ CurvesUnchanged

\* a.map_merged_inflection_points(&b, f), with an f that returns its arguments.
CallMapMergedInflectionPoints ==
    /\ TwoFunctions
    /\ pl_out' = Applied("map_merged_inflection_points", <<>>,
                         MapMergedInflectionPoints(FunctionA, FunctionB),
                         MapMergedInflectionPoints(FunctionB, FunctionA))
    /\ CurvesUnchanged

NextCurves ==
    \/ CallNew
    \/ \E x \in SampleXs : CallEvaluate(x)
    \/ CallLinearMap
    \/ \E w \in Weights : CallBilinearMap(w)
    \/ CallPointwiseMax
    \/ CallPointwiseMin
    \/ CallMapMergedInflectionPoints

SpecCurves == InitCurves /\ [][NextCurves]_vars

\* ------------------------------------------------------- race scenario
\* Two threads share a Pool (PoolInternal is behind an Arc, its blocks and its free
\* list behind a Mutex each) and call allocate_index once each.  A step of a thread
\* is what it does under one lock; create_texture and the rest of the block's
\* construction touch nothing shared.  Who holds the layers that are not free takes
\* no part.
Threads == {1, 2}

\* The layers of the blocks bl, and every order of every part of a set.
LayersOf(bl) == UNION {{Index(b - 1, l) : l \in 0..(bl[b] - 1)} : b \in 1..Len(bl)}
Arrangements(S) == UNION {Orderings(T) : T \in SUBSET S}

\* A call of allocate_index: where it is, its block_index and block_size once it
\* read blocks.len(), the next layer_index of its loop, what it returned, and
\* whether another block was pushed between its len() and its push.
Call(pc, block_index, block_size, layer_index, index, raced) ==
    [pc |-> pc, block_index |-> block_index, block_size |-> block_size,
     layer_index |-> layer_index, index |-> index, raced |-> raced]
Entered == Call("try_allocate", 0, 0, 0, NoIndex, FALSE)

InitRace ==
    /\ scenario = "race"
    /\ limit \in 1..MaxLimit
    /\ \E n \in 0..MaxBlocks : blocks = [b \in 1..n |-> BlockSize(b - 1, limit)]
    /\ free_list \in Arrangements(LayersOf(blocks))
    /\ data = <<>>
    /\ texture = <<>>
    /\ tiles = <<>>
    /\ handles = <<>>
    /\ charts = [k \in Keys |-> NoIndex]
    /\ atlas_alive = FALSE
    /\ panicked = "no"
    /\ last = Called("none")
    /\ alloc_seq = <<>>
    /\ released = FALSE
    /\ last_point = <<>>
    /\ stale = FALSE
    /\ returned = Returned("none", <<>>, <<>>)
    /\ tri = <<>>
    /\ cells = <<>>
    /\ segment_end = <<>>
    /\ pl_in = <<>>
    /\ pl_out = <<>>
    /\ threads = [t \in Threads |-> Entered]

RaceUnchanged ==
    UNCHANGED <<scenario, limit, data, texture, tiles, charts, atlas_alive, handles,
                last, alloc_seq, released, last_point, stale, returned, tri, cells,
                segment_end, pl_in, pl_out>>

\* self.free_list.try_allocate(), and the return of the index it popped.
TryAllocateStep(t) ==
    /\ scenario = "race" /\ panicked = "no" /\ threads[t].pc = "try_allocate"
    /\ IF free_list # <<>>
       THEN /\ free_list' = TryAllocate(free_list).rest
            /\ threads' = [threads EXCEPT ![t].pc = "returned",
                                          ![t].index = TryAllocate(free_list).index]
       ELSE /\ threads' = [threads EXCEPT ![t].pc = "len"]
            /\ UNCHANGED free_list
    /\ UNCHANGED <<blocks, panicked>>
    /\ RaceUnchanged

\* self.blocks.len(), block_size and the assertion.
LenStep(t) ==
    /\ scenario = "race" /\ panicked = "no" /\ threads[t].pc = "len"
    /\ LET block_index == Len(blocks)
           block_size == BlockSize(block_index, limit)
       IN  IF BlockSizeAssert(block_size)
           THEN /\ threads' = [threads EXCEPT ![t].pc = "push",
                                              ![t].block_index = block_index,
                                              ![t].block_size = block_size]
                /\ UNCHANGED panicked
           ELSE /\ panicked' = "assert"
                /\ UNCHANGED threads
    /\ UNCHANGED <<blocks, free_list>>
    /\ RaceUnchanged

\* self.blocks.push(block): the block goes where the vector ends now; the index that
\* push returns is dropped.
PushStep(t) ==
    /\ scenario = "race" /\ panicked = "no" /\ threads[t].pc = "push"
    /\ blocks' = Append(blocks, threads[t].block_size)
    /\ threads' = [u \in Threads |->
                     IF u = t
                     THEN [threads[t] EXCEPT !.pc = "release", !.layer_index = 1]
                     ELSE [threads[u] EXCEPT !.raced = @ \/ threads[u].pc = "push"]]
    /\ UNCHANGED <<free_list, panicked>>
    /\ RaceUnchanged

\* One turn of for layer_index in 1..block_size { self.free_list.release(..) }, or
\* its end and the return of Index { block_index, layer_index: 0 }.
ReleaseStep(t) ==
    /\ scenario = "race" /\ panicked = "no" /\ threads[t].pc = "release"
    /\ IF threads[t].layer_index < threads[t].block_size
       THEN /\ free_list' = Release(free_list, Index(threads[t].block_index,
                                                      threads[t].layer_index))
            /\ threads' = [threads EXCEPT ![t].layer_index = @ + 1]
       ELSE /\ threads' = [threads EXCEPT ![t].pc = "returned",
                                          ![t].index = Index(threads[t].block_index, 0)]
            /\ UNCHANGED free_list
    /\ UNCHANGED <<blocks, panicked>>
    /\ RaceUnchanged

NextRace ==
    \E t \in Threads :
        \/ TryAllocateStep(t)
        \/ LenStep(t)
        \/ PushStep(t)
        \/ ReleaseStep(t)

SpecRace == InitRace /\ [][NextRace]_vars

\* ------------------------------------------------------ claims: Airbrush
\* C11: a drag that finds no retained point retains its point and returns no
\* drawable, whatever the point; a drag that returns a drawable found a retained
\* point.
FirstDragOnlyRetains ==
    returned.op = "drag" =>
        /\ returned.before = <<>> =>
               /\ last_point = returned.point
               /\ ~returned.drawable
               /\ returned.vertex_count = 0
        /\ returned.drawable => returned.before # <<>>

FirstDragOnlyRetainsWitness ==
    /\ returned.op = "drag"
    /\ returned.before = <<>>
    /\ last_point = returned.point
    /\ last_point # <<>>
    /\ ~returned.drawable

\* The last call was a drag that found a retained point.
DragFoundPoint == returned.op = "drag" /\ returned.before # <<>>

\* The squared displacement of the last drag's point from the point it found is below
\* the square of 0.05 times the sum of the two points' size * pressure.
BelowMinSpacing ==
    LET a == returned.before[1]
        b == returned.point[1]
        sum == RAdd(RMul(a.size, a.pressure), RMul(b.size, b.pressure))
    IN  RLess(Whole(400 * LengthSquared(a.position, b.position)), RMul(sum, sum))

\* C12: a drag that finds a retained point closer than the minimum spacing returns
\* no drawable and leaves the retained point as it was; any other drag that finds a
\* retained point replaces it with the new point and returns a drawable.
SpacingFilterDecides ==
    DragFoundPoint =>
        IF BelowMinSpacing
        THEN ~returned.drawable /\ last_point = returned.before
        ELSE returned.drawable /\ last_point = returned.point

SpacingFilterDecidesWitness ==
    /\ DragFoundPoint
    /\ BelowMinSpacing
    /\ returned.before # returned.point
    /\ returned.before[1].position # returned.point[1].position
    /\ last_point = returned.before

\* C13: after start() the generator holds no retained point, whatever calls came
\* before it (so that the drag that follows start() returns no drawable).
StartClearsRetainedPoint == returned.op = "start" => last_point = <<>>

\* C14: after stop() the generator holds no retained point, whatever state it was
\* in; the drag that follows stop() returns no drawable and retains its point; and
\* no drawable's segment starts at a point dragged before the last stop().
StopClearsRetainedPoint ==
    /\ [](returned.op = "stop" => last_point = <<>>)
    /\ [](~stale /\ ~returned.stale)
    /\ [][returned.op = "stop" /\ returned'.op = "drag" =>
             ~returned'.drawable /\ last_point' = returned'.point]_vars

StopClearsRetainedPointWitness ==
    returned.op = "stop" /\ returned.before # <<>> /\ last_point = <<>>

\* C15: every drawable drag returns has an even number of vertices, at least 4 and
\* at most 12, so that drag never writes more vertices than its vertex buffer holds.
VertexCountFitsBuffer ==
    /\ scenario = "brush" => panicked = "no"
    /\ returned.drawable =>
           /\ returned.vertex_count \in {4, 6, 8, 10, 12}
           /\ returned.vertex_count <= VERTEX_CAPACITY

VertexCountFitsBufferWitness ==
    returned.drawable /\ returned.vertex_count = VERTEX_CAPACITY

\* The last drag found a retained point at the position of its own point.
DragAtSamePosition ==
    DragFoundPoint /\ returned.before[1].position = returned.point[1].position

\* size * pressure of the retained point and of the new point of the last drag add
\* up to more than nothing.
SomeEffectiveRadius ==
    RLess(Whole(0), RAdd(PointSize(returned.before[1]), PointSize(returned.point[1])))

\* C16 as stated: a drag whose point is at the position of the retained point
\* returns no drawable, whatever the sizes and pressures of the two points.
ZeroLengthSegmentFiltered == DragAtSamePosition => ~returned.drawable

\* C16, amended: a drag whose point is at the position of the retained point
\* returns no drawable and keeps the retained point, provided size * pressure of the
\* two points do not add up to zero.
SizedZeroLengthSegmentFiltered ==
    DragAtSamePosition /\ SomeEffectiveRadius =>
        ~returned.drawable /\ last_point = returned.before

SizedZeroLengthSegmentFilteredWitness ==
    /\ DragAtSamePosition
    /\ SomeEffectiveRadius
    /\ returned.before # returned.point
    /\ last_point = returned.before

\* ---------------------------------------------------- claims: rasterizer
\* conservative_triangle has returned.
Rasterized == scenario = "raster" /\ cells # <<"not called">>

\* The vertices of tri in units of 1 / GRID, and the corners of the square of cells
\* from (x0, y0) to (x1, y1) in the same units.
TriangleVertices == {<<(tri[k][1][1] * GRID) \div tri[k][1][2],
                       (tri[k][2][1] * GRID) \div tri[k][2][2]>> : k \in 1..3}
SquareCorners(x0, y0, x1, y1) == {<<GRID * x, GRID * y>> : x \in {x0, x1}, y \in {y0, y1}}

\* The directions that can separate a square of cells from the triangle, the segment
\* or the point that tri is: the axes and the normals of the triangle's edges.
SeparatingAxes ==
    {<<1, 0>>, <<0, 1>>}
    \cup ({<<p[2] - q[2], q[1] - p[1]>> : p \in TriangleVertices, q \in TriangleVertices}
          \ {<<0, 0>>})

Dot(n, p) == n[1] * p[1] + n[2] * p[2]

\* The open square of cells from (x0, y0) to (x1, y1) contains a point of the closed
\* triangle: no direction has the projections of the two apart or only touching.
OpenSquareMeetsTriangle(x0, y0, x1, y1) ==
    \A n \in SeparatingAxes :
        /\ \E p \in TriangleVertices, q \in SquareCorners(x0, y0, x1, y1) :
               Dot(n, p) > Dot(n, q)
        /\ \E p \in TriangleVertices, q \in SquareCorners(x0, y0, x1, y1) :
               Dot(n, p) < Dot(n, q)

\* The closed square of cells from (x0, y0) to (x1, y1) contains a point of the
\* closed triangle: no direction has the projections of the two apart.
ClosedSquareMeetsTriangle(x0, y0, x1, y1) ==
    \A n \in SeparatingAxes :
        /\ \E p \in TriangleVertices, q \in SquareCorners(x0, y0, x1, y1) :
               Dot(n, p) >= Dot(n, q)
        /\ \E p \in TriangleVertices, q \in SquareCorners(x0, y0, x1, y1) :
               Dot(n, p) =< Dot(n, q)

\* The cells around the triangle: those of its bounding box and their neighbours.
SetMin(S) == CHOOSE m \in S : \A o \in S : m =< o
SetMax(S) == CHOOSE m \in S : \A o \in S : m >= o

NearbyCells ==
    LET xs == {p[1] \div GRID : p \in TriangleVertices}
        ys == {p[2] \div GRID : p \in TriangleVertices}
    IN  {<<x, y>> : x \in (SetMin(xs) - 1)..(SetMax(xs) + 1),
                    y \in (SetMin(ys) - 1)..(SetMax(ys) + 1)}

\* The cells whose open interior the triangle enters.
CrossedCells == {cell \in NearbyCells :
                   OpenSquareMeetsTriangle(cell[1], cell[2], cell[1] + 1, cell[2] + 1)}

\* The three vertices lie on one line (or coincide).
Degenerate == Det(tri[1], tri[2], tri[3]) = Whole(0)

\* C17: every cell whose open interior the triangle enters is in the output of
\* conservative_triangle, for every triangle.
NoFalseNegatives == Rasterized => CrossedCells \subseteq Range(cells)

\* The same, for the triangles that are not degenerate.
NoFalseNegativesOfProperTriangles ==
    Rasterized /\ ~Degenerate => CrossedCells \subseteq Range(cells)

\* C18: every cell whose open interior the segment a degenerate triangle collapses to
\* passes through is in the output, for every order of the vertices.
DegenerateTrianglesCovered ==
    Rasterized /\ Degenerate => CrossedCells \subseteq Range(cells)

\* C19: every cell of the output touches the closed triangle or has a neighbour, by
\* an edge or a corner, that does.
BoundedFalsePositives ==
    Rasterized =>
        \A k \in 1..Len(cells) :
            ClosedSquareMeetsTriangle(cells[k][1] - 1, cells[k][2] - 1,
                                      cells[k][1] + 2, cells[k][2] + 2)

\* The triangle the specification names, rasterized: its output holds the cells
\* (0, 0) and (4, 0), and the cell (2, 2), which the triangle only touches at (3, 2).
BoundedFalsePositivesWitness ==
    /\ Rasterized
    /\ tri = ExampleTriangle
    /\ {<<0, 0>>, <<4, 0>>, <<2, 2>>} \subseteq Range(cells)
    /\ <<2, 2>> \notin CrossedCells

\* C20: the output is in strictly ascending order of (x, y): sorted, and no cell
\* twice.
OutputSortedWithoutDuplicates ==
    Rasterized => \A k \in 1..(Len(cells) - 1) : CellLess(cells[k], cells[k + 1])

\* Both wedges produced some cell, and the output has several cells.
OutputSortedWithoutDuplicatesWitness ==
    /\ Rasterized
    /\ ~Degenerate
    /\ Len(TriangleCells(tri[1], tri[2], tri[3])) > Len(cells)
    /\ Len(cells) > 1

\* ------------------------------------------- claims: piecewise-linear functions
\* No two of the points have the same x.
DistinctXs(points) ==
    \A i, j \in 1..Len(points) : i # j => points[i].x # points[j].x

\* The line through p and q, at x.
Interpolated(p, q, x) ==
    VAdd(p.y, VScale(VSub(q.y, p.y), RDiv(RSub(x, p.x), RSub(q.x, p.x))))

\* What clamped linear interpolation of a set S of breakpoints allows at x: the y of
\* a first breakpoint at or below the smallest x, the y of a last breakpoint at or
\* above the largest, and the line through two enclosing breakpoints.
ClampedInterpolation(S, x) ==
    {p.y : p \in {p \in S : ~RLess(p.x, x) /\ \A q \in S : ~RLess(q.x, p.x)}}
    \cup {p.y : p \in {p \in S : ~RLess(x, p.x) /\ \A q \in S : ~RLess(p.x, q.x)}}
    \cup {Interpolated(e[1], e[2], x) :
            e \in {e \in S \X S : /\ RLess(e[1].x, e[2].x)
                                  /\ ~RLess(x, e[1].x) /\ ~RLess(e[2].x, x)
                                  /\ \A r \in S : ~(RLess(e[1].x, r.x) /\ RLess(r.x, e[2].x))}}

\* C21: evaluate(x) is the clamped linear interpolation of the breakpoints at x,
\* whatever the order the points were passed to new in.
EvaluateIsClampedInterpolation ==
    pl_out.op = "evaluate" =>
        ClampedInterpolation(Range(pl_in.a), pl_out.x[1]) = {pl_out.result}

\* The same of points of distinct x only.
EvaluateOfDistinctXs ==
    (pl_out.op = "evaluate" /\ DistinctXs(pl_in.a)) =>
        ClampedInterpolation(Range(pl_in.a), pl_out.x[1]) = {pl_out.result}

EvaluateOfDistinctXsWitness ==
    /\ pl_out.op = "evaluate" /\ DistinctXs(pl_in.a) /\ Len(pl_in.a) = 3
    /\ pl_in.a[1].x = Whole(2) /\ pl_in.a[2].x = Whole(0)
    /\ pl_out.x[1] = <<1, 2>> /\ pl_out.result = <<<<1, 2>>>>

\* C22: new returns none exactly when it is given no points; every other input,
\* sorted or not, gives a function.
NewIsNoneOnlyOfNoPoints ==
    pl_out.op = "new" => ((pl_out.result = <<>>) <=> (pl_in.a = <<>>))

NewIsNoneOnlyOfNoPointsWitness ==
    /\ pl_out.op = "new" /\ Len(pl_in.a) = 3 /\ Len(pl_out.result) = 3
    /\ RLess(pl_in.a[3].x, pl_in.a[1].x)
    /\ RLess(pl_out.result[1].x, pl_out.result[3].x)

\* The x of the points, and whether they strictly increase.
BreakXs(points) == {points[i].x : i \in 1..Len(points)}
StrictlyIncreasing(points) ==
    \A i \in 1..(Len(points) - 1) : RLess(points[i].x, points[i + 1].x)

MakesFunction ==
    pl_out.op \in {"new", "linear_map", "bilinear_map", "pointwise_max", "pointwise_min"}

\* C23: the breakpoints of every function that new (of any input that is not empty),
\* linear_map, bilinear_map, pointwise_max or pointwise_min returns strictly
\* increase in x.
BreakpointsStrictlyIncrease ==
    MakesFunction => StrictlyIncreasing(pl_out.result) /\ StrictlyIncreasing(pl_out.swapped)

\* The same of points of distinct x only.
BreakpointsOfDistinctXsIncrease ==
    (MakesFunction /\ DistinctXs(pl_in.a) /\ DistinctXs(pl_in.b)) =>
        StrictlyIncreasing(pl_out.result) /\ StrictlyIncreasing(pl_out.swapped)

\* The x inside the domains of both functions, and the combination the tests compare
\* bilinear_map with: a's value plus w times b's.
InBothDomains(x) ==
    /\ ~RLess(x, FunctionA[1].x) /\ ~RLess(FunctionA[Len(FunctionA)].x, x)
    /\ ~RLess(x, FunctionB[1].x) /\ ~RLess(FunctionB[Len(FunctionB)].x, x)

Combined(x, w) == VAdd(Evaluate(FunctionA, x), VScale(Evaluate(FunctionB, x), Whole(w)))

\* C24: at every x inside both domains a.bilinear_map(b, f).evaluate(x) is
\* f(a.evaluate(x), b.evaluate(x)), and so is the result with a and b swapped.
BilinearMapAgrees ==
    pl_out.op = "bilinear_map" =>
        \A x \in SampleXs : InBothDomains(x) =>
            /\ Evaluate(pl_out.result, x) = Combined(x, pl_out.x[1])
            /\ Evaluate(pl_out.swapped, x) = Combined(x, pl_out.x[1])

\* The same of points of distinct x only, and at every x.
BilinearMapOfDistinctXsAgrees ==
    (pl_out.op = "bilinear_map" /\ DistinctXs(pl_in.a) /\ DistinctXs(pl_in.b)) =>
        \A x \in SampleXs :
            /\ Evaluate(pl_out.result, x) = Combined(x, pl_out.x[1])
            /\ Evaluate(pl_out.swapped, x) = Combined(x, pl_out.x[1])

\* C25: if the breakpoints of a and of b strictly increase, the breakpoints of
\* a.bilinear_map(b, f) are at the union of their x, ascending, each x once.
BilinearMapMergesBreakpoints ==
    (pl_out.op = "bilinear_map" /\ StrictlyIncreasing(FunctionA)
                                /\ StrictlyIncreasing(FunctionB)) =>
        /\ BreakXs(pl_out.result) = BreakXs(FunctionA) \cup BreakXs(FunctionB)
        /\ StrictlyIncreasing(pl_out.result)
        /\ BreakXs(pl_out.swapped) = BreakXs(FunctionA) \cup BreakXs(FunctionB)
        /\ StrictlyIncreasing(pl_out.swapped)

BilinearMapMergesBreakpointsWitness ==
    /\ pl_out.op = "bilinear_map"
    /\ StrictlyIncreasing(FunctionA) /\ StrictlyIncreasing(FunctionB)
    /\ BreakXs(FunctionA) = {Whole(0), Whole(1)}
    /\ BreakXs(FunctionB) = {Whole(1), Whole(2)}
    /\ Len(pl_out.result) = 3

\* The larger and the smaller of a's and b's value at x.
MaxAt(x) == <<RMax(Evaluate(FunctionA, x)[1], Evaluate(FunctionB, x)[1])>>
MinAt(x) == <<RMin(Evaluate(FunctionA, x)[1], Evaluate(FunctionB, x)[1])>>

\* Where a call is compared: the sampled x and the breakpoints of what it returned,
\* the crossings among them.
ComparedXs == SampleXs \cup BreakXs(pl_out.result) \cup BreakXs(pl_out.swapped)

\* C26: pointwise_max(a, b).evaluate(x) is the larger of a.evaluate(x) and
\* b.evaluate(x) at every x, in either argument order, and pointwise_min the
\* smaller.
PointwiseMaxMinAgree ==
    /\ pl_out.op = "pointwise_max" =>
           \A x \in ComparedXs : /\ Evaluate(pl_out.result, x) = MaxAt(x)
                                 /\ Evaluate(pl_out.swapped, x) = MaxAt(x)
    /\ pl_out.op = "pointwise_min" =>
           \A x \in ComparedXs : /\ Evaluate(pl_out.result, x) = MinAt(x)
                                 /\ Evaluate(pl_out.swapped, x) = MinAt(x)

\* The same of points of distinct x only.
PointwiseMaxMinOfDistinctXsAgree ==
    (DistinctXs(pl_in.a) /\ DistinctXs(pl_in.b)) => PointwiseMaxMinAgree

\* a and b cross between two breakpoints, and the result has a breakpoint there.
PointwiseMaxMinOfDistinctXsAgreeWitness ==
    /\ pl_out.op = "pointwise_max" /\ DistinctXs(pl_in.a) /\ DistinctXs(pl_in.b)
    /\ <<1, 2>> \in BreakXs(pl_out.result)
    /\ Evaluate(pl_out.result, <<1, 2>>) = <<<<1, 2>>>>

\* The calls of f are at the union of the x of ys and zs, ascending, each x once,
\* with the values of ys and zs there.
CallsOncePerInterval(calls, ys, zs) ==
    /\ {calls[i].x : i \in 1..Len(calls)} = BreakXs(ys) \cup BreakXs(zs)
    /\ \A i \in 1..(Len(calls) - 1) : RLess(calls[i].x, calls[i + 1].x)
    /\ \A i \in 1..Len(calls) : /\ calls[i].y = Evaluate(ys, calls[i].x)
                                /\ calls[i].z = Evaluate(zs, calls[i].x)

\* C27: map_merged_inflection_points calls f once for every interval of the merged
\* partition that begins at a breakpoint of either function, in ascending order of
\* x, with the interval's start and both functions' values there, and not otherwise.
MergedInflectionPointsOncePerInterval ==
    pl_out.op = "map_merged_inflection_points" =>
        /\ CallsOncePerInterval(pl_out.result, FunctionA, FunctionB)
        /\ CallsOncePerInterval(pl_out.swapped, FunctionB, FunctionA)

\* The same of points of distinct x only.
MergedInflectionPointsOfDistinctXs ==
    (DistinctXs(pl_in.a) /\ DistinctXs(pl_in.b)) => MergedInflectionPointsOncePerInterval

\* ------------------------------------------------ claims: two threads
\* Both calls returned, and another block was pushed between the len() and the push
\* of one of them.
BothReturnedAfterRace ==
    /\ scenario = "race"
    /\ \A t \in Threads : threads[t].pc = "returned"
    /\ \E t \in Threads : threads[t].raced

\* C28: two interleaved calls of allocate_index, one of which pushes its block
\* between the other's len() and push, return distinct indices of existing layers
\* and leave no index in the free list twice.
InterleavedAllocationsStayDistinct ==
    BothReturnedAfterRace =>
        /\ threads[1].index # threads[2].index
        /\ \A t \in Threads : threads[t].index \in LayersOf(blocks)
        /\ \A i, j \in 1..Len(free_list) : i # j => free_list[i] # free_list[j]

\* Without such a push the calls do.
OrderedAllocationsStayDistinct ==
    (/\ scenario = "race"
     /\ \A t \in Threads : threads[t].pc = "returned" /\ ~threads[t].raced) =>
        /\ threads[1].index # threads[2].index
        /\ \A t \in Threads : threads[t].index \in LayersOf(blocks)
        /\ \A i, j \in 1..Len(free_list) : i # j => free_list[i] # free_list[j]

\* ------------------------------------------------ claims: the pool as a whole
\* How many live tiles hold index i, and how many entries of the free list are i.
Holders(i) == IF i \in DOMAIN tiles THEN tiles[i] ELSE 0
FreeEntries(i) == Cardinality({p \in 1..Len(free_list) : free_list[p] = i})

\* C29: the indices of the live tiles and the entries of the free list are, together,
\* the layers of the blocks, each of them exactly once: no layer is leaked, and every
\* index handed out is a layer of a block.
PoolIsPartitioned ==
    /\ \A i \in AllLayers : Holders(i) + FreeEntries(i) = 1
    /\ LiveIndices \cup Range(free_list) \subseteq AllLayers

\* Two blocks, a layer of each held by a tile, after a clone and a drop.
PoolIsPartitionedWitness ==
    /\ scenario = "pool" /\ released /\ last.op = "clone" /\ last.index # NoIndex
    /\ Len(blocks) = 2 /\ Cardinality(AllLayers) = 3
    /\ Cardinality(LiveIndices) = 2 /\ Len(free_list) = 1

\* ------------------------------------------------ claims: strokes
\* The drag that returned r found a retained point and was rejected by the spacing
\* filter: the squared displacement is below the square of 0.05 times the sum of the
\* two points' size * pressure.
RejectedDrag(r) ==
    /\ r.op = "drag" /\ r.before # <<>>
    /\ LET a == r.before[1]
           b == r.point[1]
           sum == RAdd(RMul(a.size, a.pressure), RMul(b.size, b.pressure))
       IN  RLess(Whole(400 * LengthSquared(a.position, b.position)), RMul(sum, sum))

\* C30: the retained point is none at construction and after stop, and after a drag
\* it is the most recent dragged point that the spacing filter did not reject (start,
\* which does nothing, apart); so the segment of every drawable starts where the
\* segment of the stroke's previous drawable ended.
RetainedPointIsLastAcceptedDrag ==
    /\ [](returned.op = "new" => last_point = <<>>)
    /\ [][/\ returned'.op = "stop" => last_point' = <<>>
          /\ returned'.op = "start" => last_point' = last_point
          /\ returned'.op = "drag" =>
                 /\ returned'.before = last_point
                 /\ last_point' = IF RejectedDrag(returned') THEN last_point
                                ELSE returned'.point
                 /\ (returned'.drawable /\ segment_end # <<>>) =>
                        returned'.before = segment_end]_vars

\* A drag was rejected after a drawable of the same stroke: the retained point is
\* still the end of that drawable's segment.
RetainedPointIsLastAcceptedDragWitness ==
    /\ RejectedDrag(returned) /\ ~returned.drawable
    /\ segment_end # <<>> /\ last_point = segment_end
    /\ returned.point # last_point
====
